---- MODULE Spec2Model ----
(***************************************************************************)
(* Model of fsm::Fsm (src/src/fsm.cpp, src/include/fsm/fsm.hpp): a         *)
(* table-driven state machine with an optional mutex, a condition variable *)
(* for waitForState, one state-change callback and per-event gating        *)
(* callbacks.                                                              *)
(*                                                                         *)
(* Every caller thread has a call stack of frames.  A frame exists only    *)
(* while the call is suspended at a point where other code can run: inside *)
(* a user callback, parked on the condition variable, or between the two   *)
(* halves of an unlocked public operation.  The blocks of code between     *)
(* such points are single steps.  A call that ends writes its record to    *)
(* `last`; every other step clears `last`, so `last` always describes the  *)
(* call that ended in the step leading to the present state.               *)
(*                                                                         *)
(* Not modelled: the text of log lines and the log sink's own behaviour    *)
(* (logMessage only reads log_callback_), the unused trajectory fields,    *)
(* getCurrentStateName and isInState (getCurrentState with a conversion),  *)
(* the destructor, and the registration of an empty std::function.         *)
(***************************************************************************)
EXTENDS Integers, Sequences, FiniteSets, TLC

\* ------------------------------------------------------------- bounds ----
NumThreads == 2
MaxDepth == 2
MaxCallbacks == 1

Threads == 1..NumThreads
NoThread == 0

\* ------------------------------------------------------ enums, table ----
SystemState ==
    {"IDLE", "MOVEIT_STARTING", "PLANNING", "EXECUTING", "OBSTACLE_DETECTED", "ERROR"}

SystemEvent ==
    {"START_MOVEIT", "MOVEIT_READY", "MOVEIT_FAILED", "START_PLANNING",
     "PLANNING_SUCCESS", "PLANNING_FAILED", "EXECUTION_COMPLETE",
     "OBSTACLE_APPEARED", "OBSTACLE_CLEARED", "STOP_REQUEST", "ERROR_OCCURRED",
     "RESET_REQUEST"}

\* The table with an entry for the event that has none: Idle accepts
\* OBSTACLE_CLEARED.
setupTransitionTableWithObstacleCleared ==
    [IDLE |->
        [START_MOVEIT |-> "MOVEIT_STARTING",
         RESET_REQUEST |-> "IDLE",
         ERROR_OCCURRED |-> "ERROR",
         OBSTACLE_CLEARED |-> "IDLE"],
     MOVEIT_STARTING |->
        [MOVEIT_READY |-> "PLANNING",
         MOVEIT_FAILED |-> "ERROR",
         ERROR_OCCURRED |-> "ERROR",
         STOP_REQUEST |-> "IDLE"],
     PLANNING |->
        [PLANNING_SUCCESS |-> "EXECUTING",
         PLANNING_FAILED |-> "ERROR",
         ERROR_OCCURRED |-> "ERROR",
         OBSTACLE_APPEARED |-> "OBSTACLE_DETECTED",
         STOP_REQUEST |-> "IDLE"],
     EXECUTING |->
        [EXECUTION_COMPLETE |-> "IDLE",
         OBSTACLE_APPEARED |-> "OBSTACLE_DETECTED",
         STOP_REQUEST |-> "IDLE",
         ERROR_OCCURRED |-> "ERROR"],
     OBSTACLE_DETECTED |->
        [START_PLANNING |-> "PLANNING",
         STOP_REQUEST |-> "IDLE",
         ERROR_OCCURRED |-> "ERROR"],
     ERROR |->
        [RESET_REQUEST |-> "IDLE",
         STOP_REQUEST |-> "IDLE"]]

\* setupTransitionTable: the 21 entries of transition_table_.
setupTransitionTable ==
    [IDLE |->
        [START_MOVEIT |-> "MOVEIT_STARTING",
         RESET_REQUEST |-> "IDLE",
         ERROR_OCCURRED |-> "ERROR"],
     MOVEIT_STARTING |->
        [MOVEIT_READY |-> "PLANNING",
         MOVEIT_FAILED |-> "ERROR",
         ERROR_OCCURRED |-> "ERROR",
         STOP_REQUEST |-> "IDLE"],
     PLANNING |->
        [PLANNING_SUCCESS |-> "EXECUTING",
         PLANNING_FAILED |-> "ERROR",
         ERROR_OCCURRED |-> "ERROR",
         OBSTACLE_APPEARED |-> "OBSTACLE_DETECTED",
         STOP_REQUEST |-> "IDLE"],
     EXECUTING |->
        [EXECUTION_COMPLETE |-> "IDLE",
         OBSTACLE_APPEARED |-> "OBSTACLE_DETECTED",
         STOP_REQUEST |-> "IDLE",
         ERROR_OCCURRED |-> "ERROR"],
     OBSTACLE_DETECTED |->
        [START_PLANNING |-> "PLANNING",
         STOP_REQUEST |-> "IDLE",
         ERROR_OCCURRED |-> "ERROR"],
     ERROR |->
        [RESET_REQUEST |-> "IDLE",
         STOP_REQUEST |-> "IDLE"]]

transition_table == setupTransitionTable

\* canTransitionInternal: both find() calls succeed.
canTransitionInternal(state, event) ==
    /\ state \in DOMAIN transition_table
    /\ event \in DOMAIN transition_table[state]

\* isValidTransition without the comparison: every commit is accepted.
isValidTransitionUnchecked(from, to, event) == TRUE

\* isValidTransition: the entry for (from, event) exists and equals `to`.
isValidTransition(from, to, event) ==
    /\ from \in DOMAIN transition_table
    /\ event \in DOMAIN transition_table[from]
    /\ transition_table[from][event] = to

\* --------------------------------------------------------- variables ----
VARIABLES
    current_state,          \* Fsm::current_state_
    previous_state,         \* Fsm::previous_state_
    running,                \* Fsm::running_
    thread_safe,            \* Fsm::thread_safe_
    state_change_callback,  \* TRUE iff state_change_callback_ holds a function
    event_callbacks,        \* the keys of event_callbacks_
    log_callback,           \* TRUE iff log_callback_ holds a function
    mutex,                  \* owner of mutex_, NoThread when free
    stack,                  \* per thread: suspended calls, innermost first
    last,                   \* the call that ended in the last step, or NoLast
    observed                \* what an observer attached at construction has
                            \* been told: new_state of the latest state-change
                            \* callback invocation, IDLE before the first;
                            \* NONE when no such observer is attached

vars == <<current_state, previous_state, running, thread_safe,
          state_change_callback, event_callbacks, log_callback, mutex, stack, last,
          observed>>

fields == <<current_state, previous_state, running, thread_safe,
            state_change_callback, event_callbacks, log_callback>>

\* A call of operation `op`.  from/prev0 are the states the call
\* found (recorded for triggerEvent, stop, reset and the queries); to is the looked-up target; gate is what the gating callback
\* did; sc lists the state-change callback invocations as <<old, new>>;
\* reent tells whether a callback of this call called back into the engine.
\* flag is the call's boolean argument (waitForState: timeout > 0;
\* enableThreadSafety: enable; a setter: the function is not empty); lock tells
\* whether the call owns mutex_; commit_from is current_state_ at the commit.
Frame(op, pc, event, target, flag, lock) ==
    [op |-> op, pc |-> pc, event |-> event, target |-> target, flag |-> flag,
     lock |-> lock, from |-> "NONE", prev0 |-> "NONE",
     to |-> "NONE", gate |-> "none", sc |-> <<>>, scout |-> "none",
     committed |-> FALSE, commit_from |-> "NONE", notified |-> FALSE,
     reent |-> "no"]

\* The frame of a call whose effect on the state is the subject of a claim: it
\* records the states the call found.
StateFrame(op, pc, event, target, flag, lock) ==
    [Frame(op, pc, event, target, flag, lock)
        EXCEPT !.from = current_state, !.prev0 = previous_state]

\* ret is what the caller receives: "true", "false", "void", a state name, or
\* "escaped" when an exception leaves the operation; res is the boolean the
\* operation computed, also when the operation returns void.
NoLast == [t |-> NoThread, depth |-> 0, ret |-> "none", res |-> "none",
           call |-> [op |-> "none"]]

Top(t) == Head(stack[t])
InCall(t) == stack[t] # <<>>
InCallback(t) == InCall(t) /\ Top(t).pc \in {"gate", "sc"}
Parked == {u \in Threads : InCall(u) /\ Top(u).pc = "parked"}

\* getOptionalLock with the test of thread_safe_ inverted.
getOptionalLockInverted == ~thread_safe

\* getOptionalLock: a lock object exists iff thread_safe_ is set.
getOptionalLock == thread_safe

\* catch (const std::exception&): the one handler around both callbacks.
Caught(kind) == kind = "std"

\* cv_.notify_all(): every thread parked in cv_.wait / cv_.wait_for is woken.
NotifyAll(stk) ==
    [u \in Threads |->
        IF stk[u] # <<>> /\ Head(stk[u]).pc = "parked"
        THEN <<[Head(stk[u]) EXCEPT !.pc = "woken"]>> \o Tail(stk[u])
        ELSE stk[u]]

VoidOps == {"start", "stop", "reset", "shutdown", "setStateChangeCallback",
            "setEventCallback", "setLogCallback", "enableThreadSafety", "logMessage"}

Configuring(u) == InCall(u) /\ Top(u).op = "enableThreadSafety"

\* A caller may begin a top-level operation when it is in none; without
\* thread safety the caller serialises all access (single-threaded use), and
\* enableThreadSafety is not flipped concurrently with in-flight calls.
CanEnterTop(t) ==
    /\ ~InCall(t)
    /\ \A u \in Threads \ {t} : ~Configuring(u)
    /\ thread_safe \/ \A u \in Threads \ {t} : ~InCall(u)

\* ... or, inside one of its callbacks, call back into the engine.
CanEnterNested(t) == InCallback(t) /\ Len(stack[t]) < MaxDepth

\* The events gating callbacks are registered for: one accepted in Idle only,
\* one accepted in every state but Idle, one accepted in Idle (as a self-loop)
\* and in Error, and the one no state accepts.
GatedEvents == {"START_MOVEIT", "STOP_REQUEST", "RESET_REQUEST", "OBSTACLE_CLEARED"}

\* std::unique_lock<std::mutex>(mutex_) returns once mutex_ is free.  The case
\* mutex = t (the caller owns it already) is Relock.
Locks(t) == getOptionalLock => mutex = NoThread

\* The caller's frame once a callback of it has called back into the engine:
\* the states it recorded before are no longer the engine's.
MarkNested(rest) ==
    IF rest = <<>> THEN rest
    ELSE <<[Head(rest) EXCEPT !.reent = "nested", !.from = "NONE", !.prev0 = "NONE"]>>
         \o Tail(rest)

\* End with a lock object that is not destroyed when an exception unwinds the
\* stack.
EndKeepingLockOnThrow(t, rest, stk, f, res) ==
    /\ stack' = [stk EXCEPT ![t] = MarkNested(rest)]
    /\ mutex' = IF f.lock /\ res # "escaped" THEN NoThread ELSE mutex
    /\ last' = [t |-> t, depth |-> Len(rest), res |-> res, call |-> f,
                ret |-> IF res # "escaped" /\ f.op \in VoidOps THEN "void" ELSE res]
    /\ observed' = observed

\* The call with frame f of thread t ends: its frame is gone, the lock object
\* is destroyed (also when an exception unwinds the stack), `last` records it.
End(t, rest, stk, f, res) ==
    /\ stack' = [stk EXCEPT ![t] = MarkNested(rest)]
    /\ mutex' = IF f.lock THEN NoThread ELSE mutex
    /\ last' = [t |-> t, depth |-> Len(rest), res |-> res, call |-> f,
                ret |-> IF res # "escaped" /\ f.op \in VoidOps THEN "void" ELSE res]
    /\ observed' = observed

\* The call with frame f of thread t is suspended (in a callback, parked, ...).
\* Inside the state-change callback the observer has received f.sc.
Suspend(t, rest, f) ==
    /\ stack' = [stack EXCEPT ![t] = <<f>> \o rest]
    /\ mutex' = IF f.lock THEN t ELSE mutex
    /\ last' = NoLast
    /\ observed' = IF f.pc = "sc" /\ observed # "NONE" THEN f.sc[1][2] ELSE observed

\* onStateChanged(old, new): the state-change callback if one is set, then
\* cv_.notify_all(); ScReturn is the part after the callback.
onStateChanged(t, rest, f, old, new) ==
    IF state_change_callback
    THEN Suspend(t, rest, [f EXCEPT !.pc = "sc", !.sc = <<<<old, new>>>>])
    ELSE End(t, rest, NotifyAll(stack), [f EXCEPT !.notified = TRUE], "true")

\* executeTransition without the assignment to previous_state_.
executeTransitionKeepingPrevious(t, rest, f) ==
    IF ~isValidTransition(current_state, f.to, f.event)
    THEN /\ End(t, rest, stack, f, "false")
         /\ UNCHANGED fields
    ELSE /\ current_state' = f.to
         /\ UNCHANGED <<previous_state, running, thread_safe, state_change_callback,
                        event_callbacks, log_callback>>
         /\ onStateChanged(t, rest,
                           [f EXCEPT !.committed = TRUE, !.commit_from = current_state],
                           current_state, f.to)

\* executeTransition(current_state_, target_state, event)
executeTransition(t, rest, f) ==
    IF ~isValidTransition(current_state, f.to, f.event)
    THEN /\ End(t, rest, stack, f, "false")
         /\ UNCHANGED fields
    ELSE /\ previous_state' = current_state
         /\ current_state' = f.to
         /\ UNCHANGED <<running, thread_safe, state_change_callback,
                        event_callbacks, log_callback>>
         /\ onStateChanged(t, rest,
                           [f EXCEPT !.committed = TRUE, !.commit_from = current_state],
                           current_state, f.to)

\* ------------------------------------------------ lifecycle operations ----
Init ==
    /\ current_state = "IDLE"
    /\ previous_state = "IDLE"
    /\ running = FALSE
    /\ thread_safe = FALSE
    /\ state_change_callback = FALSE
    /\ event_callbacks = {}
    /\ log_callback = TRUE
    /\ mutex = NoThread
    /\ stack = [t \in Threads |-> <<>>]
    /\ last = NoLast
    /\ observed = "NONE"

initialize(t) ==
    /\ CanEnterTop(t) /\ Locks(t)
    /\ current_state' = "IDLE"
    /\ previous_state' = "IDLE"
    /\ running' = TRUE
    /\ UNCHANGED <<thread_safe, state_change_callback, event_callbacks, log_callback>>
    /\ End(t, stack[t], stack,
           Frame("initialize", "body", "NONE", "NONE", FALSE, getOptionalLock), "true")

start(t) ==
    /\ CanEnterTop(t) /\ Locks(t)
    /\ running' = TRUE
    /\ current_state' = "IDLE"
    /\ UNCHANGED <<previous_state, thread_safe, state_change_callback,
                   event_callbacks, log_callback>>
    /\ End(t, stack[t], stack,
           Frame("start", "body", "NONE", "NONE", FALSE, getOptionalLock), "true")

resetBody(t) ==
    /\ Locks(t)
    /\ previous_state' = current_state
    /\ current_state' = "IDLE"
    /\ UNCHANGED <<running, thread_safe, state_change_callback,
                   event_callbacks, log_callback>>
    /\ onStateChanged(t, stack[t],
           [StateFrame("reset", "body", "NONE", "NONE", FALSE, getOptionalLock)
               EXCEPT !.committed = TRUE, !.commit_from = current_state, !.to = "IDLE"],
           current_state, "IDLE")

reset(t) == CanEnterTop(t) /\ resetBody(t)

shutdown(t) ==
    /\ CanEnterTop(t) /\ Locks(t)
    /\ running' = FALSE
    /\ UNCHANGED <<current_state, previous_state, thread_safe,
                   state_change_callback, event_callbacks, log_callback>>
    /\ End(t, stack[t], NotifyAll(stack),
           [Frame("shutdown", "body", "NONE", "NONE", FALSE, getOptionalLock)
               EXCEPT !.notified = TRUE], "true")

\* ------------------------------------------------------- triggerEvent ----
\* triggerEvent(event) and stop() == triggerEvent(STOP_REQUEST), up to the
\* gating callback's invocation.
triggerEventInternal(t, op, event) ==
    /\ Locks(t)
    /\ LET f == StateFrame(op, "body", event, "NONE", FALSE, getOptionalLock) IN
       IF ~canTransitionInternal(current_state, event)
       THEN /\ End(t, stack[t], stack, f, "false")
            /\ UNCHANGED fields
       ELSE LET g == [f EXCEPT !.to = transition_table[current_state][event]] IN
            IF event \in event_callbacks
            THEN /\ Suspend(t, stack[t], [g EXCEPT !.pc = "gate"])
                 /\ UNCHANGED fields
            ELSE executeTransition(t, stack[t], g)

triggerEvent(t, event) ==
    CanEnterTop(t) /\ triggerEventInternal(t, "triggerEvent", event)

\* stop() raising RESET_REQUEST in place of STOP_REQUEST.
stopRaisingReset(t) ==
    CanEnterTop(t) /\ triggerEventInternal(t, "stop", "RESET_REQUEST")

stop(t) == CanEnterTop(t) /\ triggerEventInternal(t, "stop", "STOP_REQUEST")

GateOutcomes == {"true", "false", "std", "other"}

\* The gating callback returns true or false, or throws a std::exception
\* ("std") or something else ("other").
GateReturn(t, outcome) ==
    /\ InCall(t) /\ Top(t).pc = "gate"
    /\ LET f == [Top(t) EXCEPT !.gate = outcome]
           rest == Tail(stack[t]) IN
       CASE outcome = "true" -> executeTransition(t, rest, f)
         [] outcome = "false" -> End(t, rest, stack, f, "false") /\ UNCHANGED fields
         [] OTHER ->
              /\ End(t, rest, stack, f, IF Caught(outcome) THEN "false" ELSE "escaped")
              /\ UNCHANGED fields

ScOutcomes == {"ok", "std", "other"}

\* The state-change callback returns or throws; the rest of onStateChanged
\* and of its callers (executeTransition returns true; reset returns).
ScReturn(t, outcome) ==
    /\ InCall(t) /\ Top(t).pc = "sc"
    /\ UNCHANGED fields
    /\ LET f == [Top(t) EXCEPT !.scout = outcome]
           rest == Tail(stack[t]) IN
       IF outcome = "ok" \/ Caught(outcome)
       THEN End(t, rest, NotifyAll(stack), [f EXCEPT !.notified = TRUE], "true")
       ELSE End(t, rest, stack, f, "escaped")

\* ------------------------------------------------------------ queries ----
getCurrentState(t) ==
    /\ CanEnterTop(t) /\ Locks(t)
    /\ UNCHANGED fields
    /\ End(t, stack[t], stack,
           Frame("getCurrentState", "body", "NONE", "NONE", FALSE, getOptionalLock),
           current_state)

\* canTransition that looks the state up only: true for every event.
canTransitionIgnoringEvent(t, event) ==
    /\ CanEnterTop(t) /\ Locks(t)
    /\ UNCHANGED fields
    /\ End(t, stack[t], stack,
           StateFrame("canTransition", "body", event, "NONE", FALSE, getOptionalLock),
           IF current_state \in DOMAIN transition_table THEN "true" ELSE "false")

canTransition(t, event) ==
    /\ CanEnterTop(t) /\ Locks(t)
    /\ UNCHANGED fields
    /\ End(t, stack[t], stack,
           StateFrame("canTransition", "body", event, "NONE", FALSE, getOptionalLock),
           IF canTransitionInternal(current_state, event) THEN "true" ELSE "false")

\* ------------------------------------------------------- registration ----
\* Registration is done by the owner of the engine, not from a callback (a
\* setter called from the callback it replaces destroys the running function).
setStateChangeCallback(t, callback) ==
    /\ CanEnterTop(t) /\ Locks(t)
    /\ state_change_callback' = callback
    /\ UNCHANGED <<current_state, previous_state, running, thread_safe,
                   event_callbacks, log_callback>>
    /\ End(t, stack[t], stack,
           Frame("setStateChangeCallback", "body", "NONE", "NONE", callback,
                 getOptionalLock), "true")

\* event_callbacks_[event] = callback: the key is added or overwritten, never
\* erased.
setEventCallback(t, event) ==
    /\ CanEnterTop(t) /\ Locks(t)
    /\ Cardinality(event_callbacks \cup {event}) <= MaxCallbacks
    /\ event_callbacks' = event_callbacks \cup {event}
    /\ UNCHANGED <<current_state, previous_state, running, thread_safe,
                   state_change_callback, log_callback>>
    /\ End(t, stack[t], stack,
           Frame("setEventCallback", "body", event, "NONE", TRUE, getOptionalLock),
           "true")

\* setLogCallback: the lock is taken, then log_callback_ is written (with a
\* sink that is not empty).
setLogCallback(t) ==
    /\ CanEnterTop(t) /\ Locks(t)
    /\ UNCHANGED fields
    /\ Suspend(t, stack[t],
               Frame("setLogCallback", "write", "NONE", "NONE", TRUE, getOptionalLock))

setLogCallbackWrite(t) ==
    /\ InCall(t) /\ Top(t).op = "setLogCallback" /\ Top(t).pc = "write"
    /\ log_callback' = Top(t).flag
    /\ UNCHANGED <<current_state, previous_state, running, thread_safe,
                   state_change_callback, event_callbacks>>
    /\ End(t, Tail(stack[t]), stack, Top(t), "true")

\* logMessage (public): no lock; reads log_callback_ and calls it if set.
logMessage(t) ==
    /\ CanEnterTop(t)
    /\ UNCHANGED fields
    /\ Suspend(t, stack[t], Frame("logMessage", "read", "NONE", "NONE", FALSE, FALSE))

logMessageRead(t) ==
    /\ InCall(t) /\ Top(t).op = "logMessage" /\ Top(t).pc = "read"
    /\ UNCHANGED fields
    /\ End(t, Tail(stack[t]), stack, Top(t), IF log_callback THEN "true" ELSE "false")

\* enableThreadSafety: no lock; writes thread_safe_.  A configuration switch:
\* called while no other call is in flight.
enableThreadSafety(t, enable) ==
    /\ CanEnterTop(t)
    /\ \A u \in Threads \ {t} : ~InCall(u)
    /\ UNCHANGED fields
    /\ Suspend(t, stack[t],
               Frame("enableThreadSafety", "write", "NONE", "NONE", enable, FALSE))

enableThreadSafetyWrite(t) ==
    /\ InCall(t) /\ Top(t).op = "enableThreadSafety" /\ Top(t).pc = "write"
    /\ thread_safe' = Top(t).flag
    /\ UNCHANGED <<current_state, previous_state, running, state_change_callback,
                   event_callbacks, log_callback>>
    /\ End(t, Tail(stack[t]), stack, Top(t), "true")

\* ------------------------------------------------------- waitForState ----
\* The predicate given to cv_.wait and cv_.wait_for.
WaitPredicate(target) == current_state = target \/ ~running

\* What waitForState returns once the wait is over: cv_.wait_for returns the
\* predicate's value; after cv_.wait the state is compared with the target.
WaitResult(target, timed) ==
    IF timed THEN WaitPredicate(target) ELSE current_state = target

Bool(b) == IF b THEN "true" ELSE "false"

\* waitForState comparing the state with the target before it tests
\* thread_safe_.
waitForStateTargetFirst(t, target, timed) ==
    /\ CanEnterTop(t)
    /\ UNCHANGED fields
    /\ IF current_state = target /\ (thread_safe => mutex = NoThread)
       THEN End(t, stack[t], stack,
                StateFrame("waitForState", "body", "NONE", target, timed, thread_safe),
                "true")
       ELSE IF ~thread_safe
       THEN End(t, stack[t], stack,
                StateFrame("waitForState", "body", "NONE", target, timed, FALSE), "false")
       ELSE /\ mutex = NoThread
            /\ LET f == StateFrame("waitForState", "body", "NONE", target, timed, TRUE) IN
               IF WaitPredicate(target)
               THEN End(t, stack[t], stack, f, Bool(WaitResult(target, timed)))
               ELSE Suspend(t, stack[t],
                            Frame("waitForState", "parked", "NONE", target, timed, FALSE))

\* waitForState up to the point where the thread is parked on cv_ (the wait
\* releases mutex_).  timed is timeout.count() > 0.
waitForState(t, target, timed) ==
    /\ CanEnterTop(t)
    /\ UNCHANGED fields
    /\ IF ~thread_safe
       THEN End(t, stack[t], stack,
                StateFrame("waitForState", "body", "NONE", target, timed, FALSE), "false")
       ELSE /\ mutex = NoThread
            /\ LET f == StateFrame("waitForState", "body", "NONE", target, timed, TRUE) IN
               IF current_state = target
               THEN End(t, stack[t], stack, f, "true")
               ELSE IF WaitPredicate(target)
               THEN End(t, stack[t], stack, f, Bool(WaitResult(target, timed)))
               ELSE Suspend(t, stack[t],
                            Frame("waitForState", "parked", "NONE", target, timed, FALSE))

\* A wait may end without a notification (spurious wakeup).
SpuriousWake(t) ==
    /\ InCall(t) /\ Top(t).pc = "parked"
    /\ UNCHANGED fields
    /\ Suspend(t, Tail(stack[t]), [Top(t) EXCEPT !.pc = "woken"])

\* The timeout of cv_.wait_for elapses.
Timeout(t) ==
    /\ InCall(t) /\ Top(t).pc = "parked" /\ Top(t).flag
    /\ UNCHANGED fields
    /\ Suspend(t, Tail(stack[t]), [Top(t) EXCEPT !.pc = "timedout"])

\* The woken thread takes mutex_ again and evaluates the predicate: it waits
\* again if the predicate is false and the timeout has not elapsed.
Reacquire(t) ==
    /\ InCall(t) /\ Top(t).pc \in {"woken", "timedout"}
    /\ mutex = NoThread
    /\ UNCHANGED fields
    /\ LET f == Top(t) IN
       IF WaitPredicate(f.target) \/ f.pc = "timedout"
       THEN End(t, Tail(stack[t]), stack, [f EXCEPT !.lock = TRUE],
                Bool(WaitResult(f.target, f.flag)))
       ELSE Suspend(t, Tail(stack[t]), [f EXCEPT !.pc = "parked"])

\* -------------------------------------------------------- re-entrance ----
\* The operations the callbacks of this model call back into.
NestedOps == {"triggerEvent", "stop", "reset"}

\* A callback that runs without mutex_ (unsynchronized mode) calls back into
\* the engine: the nested call runs like any other.
Reenter(t, op, event) ==
    /\ CanEnterNested(t)
    /\ ~thread_safe
    /\ CASE op = "triggerEvent" -> triggerEventInternal(t, op, event)
         [] op = "stop" -> event = "STOP_REQUEST" /\ triggerEventInternal(t, op, event)
         [] op = "reset" -> event = "NONE" /\ resetBody(t)

RelockOutcomes == {"deadlock", "error"}

\* A callback that runs under mutex_ calls a locking operation: std::mutex::lock
\* by the owning thread is undefined; it blocks for ever, or it fails with
\* std::system_error inside the callback.  The operation's body never runs.
Relock(t, op, outcome) ==
    /\ CanEnterNested(t)
    /\ thread_safe /\ mutex = t
    /\ UNCHANGED fields
    /\ IF outcome = "deadlock"
       THEN Suspend(t, stack[t], Frame(op, "blocked", "NONE", "NONE", FALSE, FALSE))
       ELSE Suspend(t, Tail(stack[t]), [Top(t) EXCEPT !.reent = "relock"])

\* ------------------------------------------------------ specification ----
\* The operations of caller thread t, and the steps of its suspended calls.
Op(t) ==
    \/ initialize(t)
    \/ start(t)
    \/ stop(t)
    \/ reset(t)
    \/ shutdown(t)
    \/ \E event \in SystemEvent : triggerEvent(t, event)
    \/ \E outcome \in GateOutcomes : GateReturn(t, outcome)
    \/ \E outcome \in ScOutcomes : ScReturn(t, outcome)
    \/ getCurrentState(t)
    \/ \E event \in SystemEvent : canTransition(t, event)
    \/ \E callback \in BOOLEAN : setStateChangeCallback(t, callback)
    \/ \E event \in GatedEvents : setEventCallback(t, event)
    \/ setLogCallback(t)
    \/ setLogCallbackWrite(t)
    \/ logMessage(t)
    \/ logMessageRead(t)
    \/ \E enable \in BOOLEAN : enableThreadSafety(t, enable)
    \/ enableThreadSafetyWrite(t)
    \/ \E target \in SystemState, timed \in BOOLEAN :
            waitForState(t, target, timed)
    \/ SpuriousWake(t)
    \/ Timeout(t)
    \/ Reacquire(t)
    \/ \E op \in NestedOps, outcome \in RelockOutcomes :
            Relock(t, op, outcome)

\* One caller thread (single-threaded use, in either mode) whose callbacks do
\* not call back into the engine in unsynchronized mode.
NextSeq == Op(1)

Spec == Init /\ [][NextSeq]_vars

\* One caller thread whose callbacks may call back into the engine.
NextReentrant ==
    \/ Op(1)
    \/ \E op \in NestedOps, event \in SystemEvent \cup {"NONE"} : Reenter(1, op, event)

SpecReentrant == Init /\ [][NextReentrant]_vars

\* The events the threads of SpecSync raise (the path Idle, MoveitStarting,
\* Planning and back to Idle) and the states they wait for.
SyncEvents == {"START_MOVEIT", "MOVEIT_READY", "STOP_REQUEST"}

WaitTargets == {"IDLE", "PLANNING"}

\* Several caller threads on an engine in synchronized mode: the engine was
\* constructed and enableThreadSafety(true) was called before the threads start.
InitSync ==
    /\ current_state = "IDLE"
    /\ previous_state = "IDLE"
    /\ running = FALSE
    /\ thread_safe = TRUE
    /\ state_change_callback = FALSE
    /\ event_callbacks = {}
    /\ log_callback = TRUE
    /\ mutex = NoThread
    /\ stack = [t \in Threads |-> <<>>]
    /\ last = NoLast
    /\ observed = "NONE"

OpSync(t) ==
    \/ initialize(t)
    \/ start(t)
    \/ reset(t)
    \/ shutdown(t)
    \/ \E event \in SyncEvents : triggerEvent(t, event)
    \/ \E outcome \in GateOutcomes : GateReturn(t, outcome)
    \/ \E outcome \in ScOutcomes : ScReturn(t, outcome)
    \/ getCurrentState(t)
    \/ \E callback \in BOOLEAN : setStateChangeCallback(t, callback)
    \/ \E event \in GatedEvents \cap SyncEvents : setEventCallback(t, event)
    \/ setLogCallback(t)
    \/ setLogCallbackWrite(t)
    \/ logMessage(t)
    \/ logMessageRead(t)
    \/ \E target \in WaitTargets, timed \in BOOLEAN :
            waitForState(t, target, timed)
    \/ SpuriousWake(t)
    \/ Timeout(t)
    \/ Reacquire(t)
    \/ \E op \in NestedOps, outcome \in RelockOutcomes :
            Relock(t, op, outcome)

NextSync == \E t \in Threads : OpSync(t)

SpecSync == InitSync /\ [][NextSync]_vars

\* The steps thread t takes inside a call it has begun: a callback returns (or
\* throws), setLogCallback and logMessage finish, a woken waiter takes the lock.
Continue(t) ==
    \/ \E outcome \in GateOutcomes : GateReturn(t, outcome)
    \/ \E outcome \in ScOutcomes : ScReturn(t, outcome)
    \/ setLogCallbackWrite(t)
    \/ logMessageRead(t)
    \/ Reacquire(t)

\* SpecSync with threads that keep running: a thread that can continue the
\* call it is in does so (callbacks return, a runnable thread is scheduled, a
\* woken waiter gets the lock once it stays free).  Nothing obliges a caller
\* to begin another operation, and no timeout or spurious wakeup is bound to
\* happen.
SpecSyncFair == SpecSync /\ \A t \in Threads : WF_vars(Continue(t))

\* One caller thread on an engine whose owner registered the state-change
\* callback of an observer right after construction and never replaces it.
InitObserved ==
    /\ current_state = "IDLE"
    /\ previous_state = "IDLE"
    /\ running = FALSE
    /\ thread_safe = FALSE
    /\ state_change_callback = TRUE
    /\ event_callbacks = {}
    /\ log_callback = TRUE
    /\ mutex = NoThread
    /\ stack = [t \in Threads |-> <<>>]
    /\ last = NoLast
    /\ observed = "IDLE"

NextObserved ==
    \/ initialize(1)
    \/ start(1)
    \/ stop(1)
    \/ reset(1)
    \/ shutdown(1)
    \/ \E event \in SystemEvent : triggerEvent(1, event)
    \/ \E outcome \in GateOutcomes : GateReturn(1, outcome)
    \/ \E outcome \in ScOutcomes : ScReturn(1, outcome)
    \/ \E event \in GatedEvents : setEventCallback(1, event)

SpecObserved == InitObserved /\ [][NextObserved]_vars

\* ============================================================== claims ====
\* The transition table of the specification (section 4), in the code's names:
\* SubsystemStarting is MOVEIT_STARTING, StartSubsystem is START_MOVEIT,
\* SubsystemReady is MOVEIT_READY, SubsystemFailed is MOVEIT_FAILED.
TableOfSpec ==
    {<<"IDLE", "START_MOVEIT", "MOVEIT_STARTING">>,
     <<"IDLE", "RESET_REQUEST", "IDLE">>,
     <<"IDLE", "ERROR_OCCURRED", "ERROR">>,
     <<"MOVEIT_STARTING", "MOVEIT_READY", "PLANNING">>,
     <<"MOVEIT_STARTING", "MOVEIT_FAILED", "ERROR">>,
     <<"MOVEIT_STARTING", "ERROR_OCCURRED", "ERROR">>,
     <<"MOVEIT_STARTING", "STOP_REQUEST", "IDLE">>,
     <<"PLANNING", "PLANNING_SUCCESS", "EXECUTING">>,
     <<"PLANNING", "PLANNING_FAILED", "ERROR">>,
     <<"PLANNING", "ERROR_OCCURRED", "ERROR">>,
     <<"PLANNING", "OBSTACLE_APPEARED", "OBSTACLE_DETECTED">>,
     <<"PLANNING", "STOP_REQUEST", "IDLE">>,
     <<"EXECUTING", "EXECUTION_COMPLETE", "IDLE">>,
     <<"EXECUTING", "OBSTACLE_APPEARED", "OBSTACLE_DETECTED">>,
     <<"EXECUTING", "STOP_REQUEST", "IDLE">>,
     <<"EXECUTING", "ERROR_OCCURRED", "ERROR">>,
     <<"OBSTACLE_DETECTED", "START_PLANNING", "PLANNING">>,
     <<"OBSTACLE_DETECTED", "STOP_REQUEST", "IDLE">>,
     <<"OBSTACLE_DETECTED", "ERROR_OCCURRED", "ERROR">>,
     <<"ERROR", "RESET_REQUEST", "IDLE">>,
     <<"ERROR", "STOP_REQUEST", "IDLE">>}

InTable(state, event) == \E e \in TableOfSpec : e[1] = state /\ e[2] = event

\* The call that has just ended, and the kinds of call the claims are about.
call == last.call

EndedTrigger == call.op = "triggerEvent" /\ call.reent = "no"

\* The state-change callback ran exactly once, with (old, new), if one is set.
NotifiedOnce(old, new) ==
    call.sc = IF state_change_callback THEN <<<<old, new>>>> ELSE <<>>

\* C1: a triggerEvent for a pair of the table, with no gating callback or one
\* that returns true, returns success, makes current_state the tabulated target
\* and previous_state the state held before, and invokes the state-change
\* callback exactly once with (old, new).
C1_TablePairTransitions ==
    (EndedTrigger /\ InTable(call.from, call.event) /\ call.gate \in {"none", "true"})
    => /\ last.ret = "true"
       /\ <<call.from, call.event, current_state>> \in TableOfSpec
       /\ previous_state = call.from
       /\ NotifiedOnce(call.from, current_state)

\* What holds of the case of C1 whatever the state-change callback throws: the
\* transition is made and the callback was invoked once; the call returns
\* success unless the callback threw something that is no std::exception.
C1_ExceptEscapingFault ==
    (EndedTrigger /\ InTable(call.from, call.event) /\ call.gate \in {"none", "true"})
    => /\ last.ret = IF call.scout = "other" THEN "escaped" ELSE "true"
       /\ <<call.from, call.event, current_state>> \in TableOfSpec
       /\ previous_state = call.from
       /\ NotifiedOnce(call.from, current_state)

\* C2: a triggerEvent for a pair that is not in the table returns failure,
\* leaves current_state and previous_state as they were, invokes neither the
\* gating callback registered for the event nor the state-change callback, and
\* notifies no waiter.
C2_MissingPairFails ==
    (call.op = "triggerEvent" /\ ~InTable(call.from, call.event))
    => /\ last.ret = "false"
       /\ current_state = call.from
       /\ previous_state = call.prev0
       /\ call.gate = "none"
       /\ call.sc = <<>>
       /\ ~call.committed
       /\ ~call.notified

\* An event no state accepts is refused although a gating callback is
\* registered for it, in a state other than the initial one.
C2_Witness ==
    /\ call.op = "triggerEvent"
    /\ call.event = "OBSTACLE_CLEARED"
    /\ "OBSTACLE_CLEARED" \in event_callbacks
    /\ state_change_callback
    /\ call.from = "PLANNING"
    /\ last.ret = "false"

\* C3: when the gating callback of an accepted event returns false or raises a
\* fault, triggerEvent returns failure, current_state and previous_state are
\* unchanged and the state-change callback is not invoked, the same in both
\* cases.
C3_GateVetoFails ==
    (EndedTrigger /\ call.gate \in {"false", "std", "other"})
    => /\ last.ret = "false"
       /\ current_state = call.from
       /\ previous_state = call.prev0
       /\ call.sc = <<>>
       /\ ~call.committed

\* What holds of the case of C3 for every kind of fault: the state is unchanged
\* and the state-change callback is not invoked; the call returns failure
\* unless the fault is no std::exception.
C3_ExceptEscapingFault ==
    (EndedTrigger /\ call.gate \in {"false", "std", "other"})
    => /\ last.ret = IF call.gate = "other" THEN "escaped" ELSE "false"
       /\ current_state = call.from
       /\ previous_state = call.prev0
       /\ call.sc = <<>>
       /\ ~call.committed

\* C4: no fault raised by a gating or state-change callback, of whatever kind,
\* propagates out of triggerEvent, stop or reset.
C4_NoFaultEscapes ==
    call.op \in {"triggerEvent", "stop", "reset"} => last.ret # "escaped"

\* C5: when the state-change callback raises a fault, the committed transition
\* is not rolled back, triggerEvent returns success, and the threads blocked in
\* waitForState are woken.
C5_CallbackFaultKeepsCommit ==
    (EndedTrigger /\ call.scout \in {"std", "other"})
    => /\ current_state = call.to
       /\ previous_state = call.commit_from
       /\ last.ret = "true"
       /\ call.notified
       /\ Parked = {}

\* What holds of the case of C5 for every kind of fault: the transition stays.
C5_ExceptEscapingFault ==
    (EndedTrigger /\ call.scout \in {"std", "other"})
    => /\ current_state = call.to
       /\ previous_state = call.commit_from
       /\ call.scout = "std" => (last.ret = "true" /\ call.notified /\ Parked = {})
       /\ call.scout = "other" => (last.ret = "escaped" /\ ~call.notified)

\* C6: reset() leaves current_state Idle and previous_state the state held
\* before, and fires exactly one notification (the state-change callback with
\* (prior, Idle) and a wake of all waiters), also when the state was Idle.
C6_ResetNotifiesOnce ==
    (call.op = "reset" /\ call.reent = "no")
    => /\ current_state = "IDLE"
       /\ previous_state = call.from
       /\ NotifiedOnce(call.from, "IDLE")
       /\ call.notified
       /\ Parked = {}

\* What holds of reset whatever the state-change callback throws.
C6_ExceptEscapingFault ==
    (call.op = "reset" /\ call.reent = "no")
    => /\ current_state = "IDLE"
       /\ previous_state = call.from
       /\ NotifiedOnce(call.from, "IDLE")
       /\ call.scout # "other" => (call.notified /\ Parked = {} /\ last.ret = "void")
       /\ call.scout = "other" => (~call.notified /\ last.ret = "escaped")

\* A waitForState call that was parked on cv_ and has ended after a wake-up
\* (not after its timeout elapsed).
EndedWaitAfterWake == call.op = "waitForState" /\ call.pc = "woken"

\* C7: a thread blocked in waitForState(target, timeout) that is woken after
\* shutdown() with its target not reached returns failure, for an indefinite
\* wait and for a wait whose positive timeout has not expired.
C7_ShutdownFailsWaiters ==
    (EndedWaitAfterWake /\ ~running /\ current_state # call.target)
    => last.ret = "false"

\* What holds of the case of C7: the indefinite wait returns failure, the
\* timed wait returns success.
C7_TimedWaitSucceeds ==
    (EndedWaitAfterWake /\ ~running /\ current_state # call.target)
    => last.ret = IF call.flag THEN "true" ELSE "false"

\* C8: every committed transition (a successful triggerEvent, a reset) and every
\* shutdown wakes all the threads blocked in waitForState, and a woken thread
\* that finds current_state equal to its target returns success.
C8_BroadcastWake ==
    /\ (call.op \in {"triggerEvent", "stop", "reset"} /\ call.committed)
          => (call.notified /\ Parked = {})
    /\ call.op = "shutdown" => (call.notified /\ Parked = {})
    /\ (EndedWaitAfterWake /\ current_state = call.target) => last.ret = "true"

\* What holds of the case of C8: no thread stays parked after a notification,
\* and the notification is skipped only when the state-change callback threw
\* something that is no std::exception.
C8_ExceptEscapingFault ==
    /\ (call.op \in {"triggerEvent", "stop", "reset"} /\ call.committed)
          => /\ call.notified = (call.scout # "other")
             /\ call.notified => Parked = {}
    /\ call.op = "shutdown" => (call.notified /\ Parked = {})
    /\ (EndedWaitAfterWake /\ current_state = call.target) => last.ret = "true"

\* In synchronized mode the lock is held by the thread whose triggerEvent, stop
\* or reset is inside the gating or the state-change callback.
LockHeldInCallbacks ==
    \A t \in Threads : (thread_safe /\ InCallback(t)) => (Top(t).lock /\ mutex = t)

\* While a thread is inside a callback under the lock, no other thread ends an
\* operation that reads or writes current_state (logMessage takes no lock and
\* touches no state).
NoOtherThreadInBetween ==
    \A t \in Threads :
        (InCallback(t) /\ Top(t).lock /\ last.t \in Threads \ {t})
        => call.op = "logMessage"

\* A callback that called a locking operation under the lock never returns:
\* the call it belongs to never ends.
ReentryNeverReturns ==
    last.t \in Threads => (call.reent # "relock" /\ call.pc # "blocked")

ReentryNeverRuns ==
    /\ \A t \in Threads :
          (Len(stack[t]) > 1 /\ stack[t][2].lock) => Top(t).pc = "blocked"
    /\ last.t \in Threads =>
          /\ call.pc # "blocked"
          /\ last.depth > 0 => ~Top(last.t).lock

Accessing(t) == InCall(t) /\ Top(t).pc \notin {"parked", "woken", "timedout", "blocked"}

\* Two threads are about to access log_callback_, one of them writing.
DataRace ==
    \E t \in Threads, u \in Threads :
        /\ u # t
        /\ InCall(t) /\ Top(t).op = "setLogCallback" /\ Top(t).pc = "write"
        /\ InCall(u) /\ Top(u).op = "logMessage" /\ Top(u).pc = "read"

\* C10: in synchronized mode every public operation holds the lock for its whole
\* duration, logMessage included, so that no two threads access the mutable
\* fields at the same time.
C10_EveryOperationLocks ==
    /\ \A t \in Threads : (thread_safe /\ Accessing(t)) => mutex = t
    /\ ~DataRace

\* C11: canTransition(event) returns true exactly when (current_state, event)
\* is a key of the table, in every state and for every event; it changes no
\* field of the engine, leaves the lock and every suspended call as they were,
\* and invokes neither a gating nor the state-change callback.
C11_CanTransitionIsPure ==
    [][call'.op = "canTransition"
       => /\ last'.ret = Bool(InTable(current_state, call'.event))
          /\ UNCHANGED <<fields, mutex, stack>>
          /\ call'.gate = "none"
          /\ call'.sc = <<>>
          /\ ~call'.committed
          /\ ~call'.notified]_vars

\* canTransition answers true in a state other than the initial one, for an
\* event that has a gating callback, with a state-change callback set.
C11_Witness ==
    /\ call.op = "canTransition"
    /\ last.ret = "true"
    /\ call.from = "PLANNING"
    /\ call.event \in event_callbacks
    /\ state_change_callback

\* A step of a stop() call: the call ends, or is suspended in a callback.
StopStep ==
    \/ call'.op = "stop"
    \/ \E t \in Threads : InCall(t)' /\ Top(t)'.op = "stop"

\* The gating callback of stop() vetoed: it returned false or threw.
StopVetoed == call.gate \in {"false", "std", "other"}

\* What an ended stop() call did, case by case as triggerEvent(STOP_REQUEST)
\* does: the gating callback runs iff the state accepts STOP_REQUEST and a
\* callback is registered for it; from a state other than Idle, not vetoed, the
\* engine is in Idle with one state-change callback invocation; from Idle, or
\* vetoed, nothing changed and the state-change callback did not run.
StopAsTrigger ==
    call.op = "stop"
    => /\ call.event = "STOP_REQUEST"
       /\ (call.gate # "none")
             = (InTable(call.from, "STOP_REQUEST") /\ "STOP_REQUEST" \in event_callbacks)
       /\ (call.from # "IDLE" /\ ~StopVetoed)
             => /\ <<call.from, "STOP_REQUEST", "IDLE">> \in TableOfSpec
                /\ current_state = "IDLE"
                /\ previous_state = call.from
                /\ NotifiedOnce(call.from, "IDLE")
       /\ (call.from = "IDLE" \/ StopVetoed)
             => /\ current_state = call.from
                /\ previous_state = call.prev0
                /\ call.sc = <<>>
                /\ ~call.committed
                /\ ~call.notified

NoWaiterUnsynchronized ==
    \A t \in Threads : (InCall(t) /\ Top(t).op = "waitForState") => thread_safe

\* C13: with thread safety disabled, waitForState(target, timeout) returns
\* failure at once, without blocking, for every target and timeout, also when
\* current_state equals the target; it changes no state of the engine.
C13_WaitNeedsThreadSafety ==
    /\ []NoWaiterUnsynchronized
    /\ [][(call'.op = "waitForState" /\ ~thread_safe)
          => /\ last'.ret = "false"
             /\ call'.pc = "body"
             /\ UNCHANGED <<fields, mutex, stack>>]_vars

\* A timed wait for the state the engine is in fails, thread safety disabled.
C13_Witness ==
    /\ call.op = "waitForState"
    /\ ~thread_safe
    /\ call.flag
    /\ call.target = "PLANNING"
    /\ current_state = "PLANNING"
    /\ running
    /\ last.ret = "false"

\* The call of thread t that took the step: the one that ended, or the one
\* now suspended on top of t's stack.
StepOf(t) == last'.t = t \/ (last' = NoLast /\ stack'[t] # stack[t])

FrameOfStep(t) == IF last'.t = t THEN call' ELSE Head(stack'[t])

\* Every call that committed did so along an entry of the table, from the
\* state held at the commit.
CommitsAreEdges ==
    /\ \A t \in Threads : \A i \in 1..Len(stack[t]) :
          (stack[t][i].op \in {"triggerEvent", "stop"} /\ stack[t][i].committed)
          => <<stack[t][i].commit_from, stack[t][i].event, stack[t][i].to>> \in TableOfSpec
    /\ (call.op \in {"triggerEvent", "stop"} /\ call.committed)
          => <<call.commit_from, call.event, call.to>> \in TableOfSpec

\* C14: every change of current_state made by triggerEvent follows an entry
\* of the table: if triggerEvent(event) changes current_state from s to t, s
\* being the state held at the commit, then (s, event) -> t is in the table;
\* also when a gating callback triggers events itself before it returns true.
C14_ChangesFollowTable ==
    /\ []CommitsAreEdges
    /\ [][\A t \in Threads :
            (/\ current_state' # current_state
             /\ StepOf(t)
             /\ FrameOfStep(t).op \in {"triggerEvent", "stop"})
            => <<current_state, FrameOfStep(t).event, current_state'>> \in TableOfSpec]_vars

\* A triggerEvent(STOP_REQUEST) whose gating callback triggered an event that
\* moved the engine to Executing, and returned true: the commit is made from
\* Executing.
C14_Witness ==
    /\ call.op = "triggerEvent"
    /\ call.event = "STOP_REQUEST"
    /\ call.reent = "nested"
    /\ call.gate = "true"
    /\ call.committed
    /\ call.commit_from = "EXECUTING"
    /\ current_state = "IDLE"
    /\ previous_state = "EXECUTING"

\* The re-check refuses: the gating callback moved the engine to a state whose
\* entry for the event is missing or differs, and returned true.
C14_RecheckRefuses ==
    /\ call.op = "triggerEvent"
    /\ call.reent = "nested"
    /\ call.gate = "true"
    /\ ~call.committed
    /\ last.ret = "false"

\* The lock is owned only by a thread inside an operation, and a call that
\* has ended, on whatever path, has given it up.
LockFreeOutsideCalls ==
    /\ \A t \in Threads : mutex = t => InCall(t)
    /\ (last.t \in Threads /\ last.depth = 0) => mutex # last.t
    /\ (\A t \in Threads : ~InCall(t)) => mutex = NoThread

\* The owner of the lock has called back into the engine from a callback and
\* is blocked there.
BlockedInReentry(t) == InCall(t) /\ Top(t).pc = "blocked"

\* C15: in synchronized mode the lock is released on every exit path of every
\* public operation (table miss, veto, gating fault, state-change fault,
\* success, wait timeout, wait ended by shutdown): the lock is free whenever no
\* thread is inside an operation, and, unless a callback re-enters the engine,
\* the threads never deadlock: whoever owns the lock gives it up.
C15_LockReleasedOnEveryPath ==
    /\ []LockFreeOutsideCalls
    /\ \A t \in Threads : (mutex = t) ~> (mutex # t \/ BlockedInReentry(t))

\* A triggerEvent left by the exception its state-change callback threw has
\* released the lock, and a waiter woken before takes it next.
C15_Witness ==
    /\ call.op = "triggerEvent"
    /\ call.lock
    /\ last.ret = "escaped"
    /\ mutex = NoThread
    /\ \E u \in Threads : InCall(u) /\ Top(u).pc = "timedout"

\* Thread t is blocked in waitForState(target, 0): parked on cv_, or woken and
\* not yet owner of the lock.
BlockedInWait(t) ==
    /\ InCall(t)
    /\ Top(t).op = "waitForState"
    /\ ~Top(t).flag
    /\ Top(t).pc \in {"parked", "woken"}

\* A commit (of triggerEvent, stop or reset) has just made current_state the
\* given state: the committing call has ended, or is inside its state-change
\* callback.
JustCommitted(state) ==
    /\ current_state = state
    /\ \/ call.op \in {"triggerEvent", "stop", "reset"} /\ call.committed /\ call.to = state
       \/ \E u \in Threads :
             InCall(u) /\ Top(u).pc = "sc" /\ Top(u).committed /\ Top(u).to = state

\* Thread t has returned success from waitForState.
WaitSucceeded(t) == last.t = t /\ call.op = "waitForState" /\ last.ret = "true"

\* C16: in synchronized mode, when a committed transition makes current_state
\* the target of a thread blocked in waitForState(target, 0) and the engine keeps
\* running, that call eventually returns success, also when other threads
\* commit transitions away from the target right after.
C16_WaiterSeesTarget ==
    \A t \in Threads :
        (BlockedInWait(t) /\ running /\ JustCommitted(Top(t).target))
        ~> (WaitSucceeded(t) \/ ~running)

\* C17: in synchronized mode, whichever operation makes current_state Idle
\* (triggerEvent, reset, start or initialize), a thread blocked in
\* waitForState(Idle, 0) eventually returns success if the state then stays Idle
\* and the engine keeps running.
C17_IdleWaiterReturns ==
    \A t \in Threads :
        (BlockedInWait(t) /\ Top(t).target = "IDLE" /\ current_state = "IDLE" /\ running)
        ~> (WaitSucceeded(t) \/ ~running \/ current_state # "IDLE")

\* A step in which the state-change callback is invoked: thread t enters it.
Invoked(t) ==
    /\ last' = NoLast
    /\ stack'[t] # stack[t]
    /\ Head(stack'[t]).pc = "sc"
    /\ ~(InCall(t) /\ Top(t).pc = "sc")

\* C18: the state-change notifications form a chain over any sequence of
\* initialize, start, triggerEvent, stop, reset and shutdown: the old_state of
\* each invocation is the new_state of the preceding one (Idle for the first),
\* so that an observer who follows the callback alone knows current_state.
C18_NotificationsChain ==
    /\ [][\A t \in Threads : Invoked(t) => Head(stack'[t]).sc[1][1] = observed]_vars
    /\ [](observed = current_state)

\* A triggerEvent for a pair of the table, not vetoed, has ended on an engine
\* that is not running (never initialized or started, or shut down).
EndedTriggerNotRunning ==
    /\ ~running
    /\ EndedTrigger
    /\ InTable(call.from, call.event)
    /\ call.gate \in {"none", "true"}

\* C19: the outcome of triggerEvent does not depend on the running flag: on an
\* engine never initialized or started, and on one after shutdown(), a
\* triggerEvent for a pair of the table commits the transition, invokes the
\* state-change callback and returns success, as on a running engine.
C19_TriggerIgnoresRunning ==
    EndedTriggerNotRunning
    => /\ last.ret = "true"
       /\ call.committed
       /\ <<call.from, call.event, current_state>> \in TableOfSpec
       /\ previous_state = call.from
       /\ NotifiedOnce(call.from, current_state)

\* What holds of the case of C19 whatever the state-change callback throws:
\* the commit and the invocation are made as on a running engine; success is
\* returned unless the callback threw something that is no std::exception.
C19_ExceptEscapingFault ==
    EndedTriggerNotRunning
    => /\ last.ret = IF call.scout = "other" THEN "escaped" ELSE "true"
       /\ call.committed
       /\ <<call.from, call.event, current_state>> \in TableOfSpec
       /\ previous_state = call.from
       /\ NotifiedOnce(call.from, current_state)

\* The case of C19 happens: a transition out of Planning on an engine that is
\* not running, reported to the state-change callback.
C19_CaseReached ==
    /\ EndedTriggerNotRunning
    /\ call.from = "PLANNING"
    /\ call.sc # <<>>
    /\ last.ret = "true"

\* Some event leads from state `from` to state `to` in the table.
IsEdge(from, to) == \E e \in TableOfSpec : e[1] = from /\ e[3] = to

\* C20: in every state reachable by initialize, start, triggerEvent, stop,
\* reset and shutdown, whenever current_state is not Idle the pair
\* (previous_state, current_state) is an edge of the table for some event; in
\* particular Executing is preceded by Planning and SubsystemStarting by Idle.
C20_PreviousIsPredecessor ==
    /\ current_state # "IDLE" => IsEdge(previous_state, current_state)
    /\ current_state = "EXECUTING" => previous_state = "PLANNING"
    /\ current_state = "MOVEIT_STARTING" => previous_state = "IDLE"

\* A triggerEvent has just moved an engine that is not running from Executing,
\* entered from Planning, to ObstacleDetected.
C20_Witness ==
    /\ call.op = "triggerEvent"
    /\ call.committed
    /\ call.prev0 = "PLANNING"
    /\ previous_state = "EXECUTING"
    /\ current_state = "OBSTACLE_DETECTED"
    /\ ~running

====
